---- MODULE Spec2Model ----
(***************************************************************************)
(* A model of twse_to_csv.py: the TWSE monthly JSON download, its parser,  *)
(* the month enumeration, the per-month retry loop and the merge of the    *)
(* months into one Date,Close series per instrument.                       *)
(*                                                                         *)
(* Python strings are sequences of one-character strings, so that          *)
(* splitting, stripping, int()/float() parsing, "{:02d}" formatting and    *)
(* the string comparison used by sort_values are computed, not assumed.    *)
(* The two column names are the character sequences <<"ri","qi">> (the two *)
(* characters of the date column's name) and <<"shou","pan","jia">> (the   *)
(* three characters of the closing-price column's name).                   *)
(***************************************************************************)
EXTENDS Integers, Sequences, FiniteSets, TLC

(***************************************************************************)
(* Program constants                                                       *)
(***************************************************************************)
RETRY == 3

HTTP_OK == 200

ROC_OFFSET == 1911

(***************************************************************************)
(* Bounds of the model                                                     *)
(***************************************************************************)
\* fetch_range is explored over month lists of 0..MaxMonths months
MaxMonths == 3

\* main is explored over an instrument list of NumSymbols instruments
NumSymbols == 2

\* month_list is explored for lookbacks of 0..MaxYears years
MaxYears == 2

(***************************************************************************)
(* Strings                                                                 *)
(***************************************************************************)
Digits == <<"0", "1", "2", "3", "4", "5", "6", "7", "8", "9">>

IsDigit(c) == \E i \in 1..10 : Digits[i] = c

DigitVal(c) == (CHOOSE i \in 1..10 : Digits[i] = c) - 1

\* ord(c) for the characters that can occur in a formatted date
Ord(c) == IF c = "-" THEN 45 ELSE IF IsDigit(c) THEN 48 + DigitVal(c) ELSE 128

IsSpace(c) == c = " "

RECURSIVE LStrip(_)
LStrip(s) == IF s # <<>> /\ IsSpace(Head(s)) THEN LStrip(Tail(s)) ELSE s

RECURSIVE RStrip(_)
RStrip(s) ==
    IF s # <<>> /\ IsSpace(s[Len(s)]) THEN RStrip(SubSeq(s, 1, Len(s) - 1)) ELSE s

\* str.strip()
Strip(s) == RStrip(LStrip(s))

\* s.replace(c, "") for a one-character c
RECURSIVE RemoveChar(_, _)
RemoveChar(s, c) ==
    IF s = <<>> THEN <<>>
    ELSE IF Head(s) = c THEN RemoveChar(Tail(s), c)
    ELSE <<Head(s)>> \o RemoveChar(Tail(s), c)

\* str.split(sep) for a one-character separator: always at least one part
RECURSIVE SplitAcc(_, _, _)
SplitAcc(s, sep, cur) ==
    IF s = <<>> THEN <<cur>>
    ELSE IF Head(s) = sep THEN <<cur>> \o SplitAcc(Tail(s), sep, <<>>)
    ELSE SplitAcc(Tail(s), sep, Append(cur, Head(s)))

Split(s, sep) == SplitAcc(s, sep, <<>>)

\* sub in s (substring test) and s.index(sub)
IsAt(s, sub, i) == i + Len(sub) - 1 <= Len(s) /\ SubSeq(s, i, i + Len(sub) - 1) = sub

StrContains(s, sub) == \E i \in 1..(Len(s) + 1) : IsAt(s, sub, i)

\* zero-based position of the first occurrence
StrIndex(s, sub) == (CHOOSE i \in 1..(Len(s) + 1) :
                        IsAt(s, sub, i) /\ \A k \in 1..(i - 1) : ~IsAt(s, sub, k)) - 1

AllDigits(s) == s # <<>> /\ \A i \in 1..Len(s) : IsDigit(s[i])

RECURSIVE DigitsVal(_)
DigitsVal(s) ==
    IF s = <<>> THEN 0 ELSE 10 * DigitsVal(SubSeq(s, 1, Len(s) - 1)) + DigitVal(s[Len(s)])

\* int(s): surrounding whitespace and one leading sign are accepted
IntBody(s) == IF s # <<>> /\ Head(s) \in {"+", "-"} THEN Tail(s) ELSE s

IsIntStr(s) == AllDigits(IntBody(Strip(s)))

IntOf(s) ==
    LET t == Strip(s)
    IN  IF Head(t) = "-" THEN 0 - DigitsVal(IntBody(t)) ELSE DigitsVal(IntBody(t))

\* str(n) for a natural number
RECURSIVE NatStr(_)
NatStr(n) == IF n < 10 THEN <<Digits[n + 1]>> ELSE NatStr(n \div 10) \o <<Digits[(n % 10) + 1]>>

\* str(n) / f"{n}"
IntStr(n) == IF n < 0 THEN <<"-">> \o NatStr(0 - n) ELSE NatStr(n)

\* f"{n:02d}": zero-padded to a width of two, the sign counting in the width
Fmt02(n) ==
    IF n < 0 THEN <<"-">> \o NatStr(0 - n)
    ELSE IF n < 10 THEN <<"0">> \o NatStr(n)
    ELSE NatStr(n)

\* s < t for Python strings (lexicographic by code point)
RECURSIVE StrLess(_, _)
StrLess(s, t) ==
    IF t = <<>> THEN FALSE
    ELSE IF s = <<>> THEN TRUE
    ELSE IF Head(s) = Head(t) THEN StrLess(Tail(s), Tail(t))
    ELSE Ord(Head(s)) < Ord(Head(t))

(***************************************************************************)
(* Decoded JSON values: [t |-> tag, v |-> value].  An object's value is    *)
(* [has |-> its keys, fields |-> ..., data |-> ...]; only the two members  *)
(* the program reads are kept.  Numbers are integers.                      *)
(***************************************************************************)
JNull == [t |-> "null", v |-> 0]

JBool(b) == [t |-> "bool", v |-> b]

JNum(n) == [t |-> "num", v |-> n]

JStr(s) == [t |-> "str", v |-> s]

JArr(a) == [t |-> "arr", v |-> a]

JObj(keys, f, d) == [t |-> "obj", v |-> [has |-> keys, fields |-> f, data |-> d]]

\* the characters of an object key
KeyChars(k) ==
    IF k = "data" THEN <<"d", "a", "t", "a">>
    ELSE IF k = "fields" THEN <<"f", "i", "e", "l", "d", "s">>
    ELSE <<"s", "t", "a", "t">>

\* bool(x)
Truthy(x) ==
    CASE x.t = "null" -> FALSE
      [] x.t = "bool" -> x.v
      [] x.t = "num" -> x.v # 0
      [] x.t = "str" -> x.v # <<>>
      [] x.t = "arr" -> x.v # <<>>
      [] x.t = "obj" -> x.v.has # {}

\* str(x), for the cell values of the model (a list or object cell is empty)
PyStr(x) ==
    CASE x.t = "null" -> <<"N", "o", "n", "e">>
      [] x.t = "bool" -> IF x.v THEN <<"T", "r", "u", "e">> ELSE <<"F", "a", "l", "s", "e">>
      [] x.t = "num" -> IntStr(x.v)
      [] x.t = "str" -> x.v
      [] x.t = "arr" -> <<"[", "]">>
      [] x.t = "obj" -> <<"{", "}">>

\* `k in j` raises TypeError unless j is a container or a string
CanContain(j) == j.t \in {"obj", "arr", "str"}

\* `k in j` for a string k
Contains(j, k) ==
    CASE j.t = "obj" -> k \in j.v.has
      [] j.t = "arr" -> \E i \in 1..Len(j.v) : j.v[i].t = "str" /\ j.v[i].v = KeyChars(k)
      [] j.t = "str" -> StrContains(j.v, KeyChars(k))

\* j[k] for a string k, defined for an object holding k
GetItem(j, k) == IF k = "data" THEN j.v.data ELSE j.v.fields

\* the same with the columns taken by position: the date first, the close second
IndexOfByPosition(x, name) ==
    [exc |-> "none", at |-> IF name = <<"ri", "qi">> THEN 0 ELSE 1]

\* x.index(name): the zero-based position, or the exception raised:
\* ValueError when name is absent, AttributeError when x has no index method
IndexOf(x, name) ==
    CASE x.t = "arr" ->
            IF \E i \in 1..Len(x.v) : x.v[i].t = "str" /\ x.v[i].v = name
            THEN [exc |-> "none",
                  at |-> (CHOOSE i \in 1..Len(x.v) :
                             /\ x.v[i].t = "str" /\ x.v[i].v = name
                             /\ \A k \in 1..(i - 1) : ~(x.v[k].t = "str" /\ x.v[k].v = name)) - 1]
            ELSE [exc |-> "ValueError", at |-> 0]
      [] x.t = "str" ->
            IF StrContains(x.v, name) THEN [exc |-> "none", at |-> StrIndex(x.v, name)]
            ELSE [exc |-> "ValueError", at |-> 0]
      [] OTHER -> [exc |-> "AttributeError", at |-> 0]

\* `for row in data` raises TypeError unless data is iterable
Iterable(x) == x.t \in {"arr", "str", "obj"}

RECURSIVE CharsAsStrs(_)
CharsAsStrs(s) == IF s = <<>> THEN <<>> ELSE <<JStr(<<Head(s)>>)>> \o CharsAsStrs(Tail(s))

\* the sequence `for row in data` walks (an object yields its keys)
RECURSIVE KeySeq(_)
KeySeq(ks) ==
    IF ks = {} THEN <<>>
    ELSE LET k == CHOOSE x \in ks : TRUE IN <<JStr(KeyChars(k))>> \o KeySeq(ks \ {k})

Items(x) ==
    CASE x.t = "arr" -> x.v
      [] x.t = "str" -> CharsAsStrs(x.v)
      [] x.t = "obj" -> KeySeq(x.v.has)

\* row[i] succeeds (no IndexError, KeyError or TypeError)
HasCell(row, i) == row.t \in {"arr", "str"} /\ i + 1 <= Len(row.v)

Cell(row, i) == IF row.t = "arr" THEN row.v[i + 1] ELSE JStr(<<row.v[i + 1]>>)

(***************************************************************************)
(* Prices: float(s) as an integer number of hundredths.  The price cells   *)
(* of the model carry at most two decimals.                                *)
(***************************************************************************)
FloatBody(s) == IF s # <<>> /\ Head(s) = "-" THEN Tail(s) ELSE s

DigitsOrEmpty(s) == \A i \in 1..Len(s) : IsDigit(s[i])

\* float(s) does not raise ValueError, for s over digits, "." and "-"
IsFloatStr(s) ==
    LET parts == Split(FloatBody(s), ".")
    IN  \/ Len(parts) = 1 /\ AllDigits(parts[1])
        \/ /\ Len(parts) = 2
           /\ DigitsOrEmpty(parts[1]) /\ DigitsOrEmpty(parts[2])
           /\ parts[1] # <<>> \/ parts[2] # <<>>

Hundredths(frac) ==
    IF frac = <<>> THEN 0
    ELSE IF Len(frac) = 1 THEN 10 * DigitVal(frac[1])
    ELSE 10 * DigitVal(frac[1]) + DigitVal(frac[2])

FloatOf(s) ==
    LET parts == Split(FloatBody(s), ".")
        mag == 100 * DigitsVal(parts[1])
               + (IF Len(parts) = 2 THEN Hundredths(parts[2]) ELSE 0)
    IN  IF s # <<>> /\ Head(s) = "-" THEN 0 - mag ELSE mag

\* "".join(ch for ch in s if ch.isdigit() or ch == "." or ch == "-")
RECURSIVE KeepNumeric(_)
KeepNumeric(s) ==
    IF s = <<>> THEN <<>>
    ELSE IF IsDigit(Head(s)) \/ Head(s) = "." \/ Head(s) = "-"
         THEN <<Head(s)>> \o KeepNumeric(Tail(s))
         ELSE KeepNumeric(Tail(s))

(***************************************************************************)
(* The month parser: the part of fetch_month_json that follows r.json()    *)
(***************************************************************************)
DateCol == <<"ri", "qi">>

CloseCol == <<"shou", "pan", "jia">>

CountCol == <<"cheng", "jiao", "bi", "shu">>

\* f"{y}-{int(m):02d}-{int(d):02d}" with y = int(y) + 1911
DateIso(y, m, d) == IntStr(y + ROC_OFFSET) \o <<"-">> \o Fmt02(m) \o <<"-">> \o Fmt02(d)

\* the date of a row: roc.split("/") must unpack into three int() strings
RowDate(cell) ==
    LET parts == Split(Strip(PyStr(cell)), "/")
    IN  IF Len(parts) = 3 /\ \A i \in 1..3 : IsIntStr(parts[i])
        THEN [ok |-> TRUE, iso |-> DateIso(IntOf(parts[1]), IntOf(parts[2]), IntOf(parts[3]))]
        ELSE [ok |-> FALSE, iso |-> <<>>]

\* the close of a row: commas removed, stripped, annotations dropped, float()
RowClose(cell) ==
    LET close_str == KeepNumeric(Strip(RemoveChar(PyStr(cell), ",")))
    IN  IF IsFloatStr(close_str)
        THEN [ok |-> TRUE, val |-> FloatOf(close_str)]
        ELSE [ok |-> FALSE, val |-> 0]

\* one pass of the row loop: the records the row adds (none on any exception)
ParseRow(row, idx_date, idx_close) ==
    IF HasCell(row, idx_date) /\ RowDate(Cell(row, idx_date)).ok
       /\ HasCell(row, idx_close) /\ RowClose(Cell(row, idx_close)).ok
    THEN <<[Date |-> RowDate(Cell(row, idx_date)).iso,
            Close |-> RowClose(Cell(row, idx_close)).val]>>
    ELSE <<>>

RECURSIVE ParseRows(_, _, _)
ParseRows(data, idx_date, idx_close) ==
    IF data = <<>> THEN <<>>
    ELSE ParseRow(Head(data), idx_date, idx_close)
         \o ParseRows(Tail(data), idx_date, idx_close)

Empty == [exc |-> "none", rows |-> <<>>]

Raises(e) == [exc |-> e, rows |-> <<>>]

\* the rows of the frame built from the decoded payload j, or the exception
\* that leaves the parse (neither a RequestException nor a ValueError)
ParseMonth(j) ==
    IF ~CanContain(j) THEN Raises("TypeError")
    ELSE IF ~Contains(j, "data") THEN Empty
    ELSE IF ~Contains(j, "fields") THEN Empty
    ELSE IF j.t # "obj" THEN Raises("TypeError")
    ELSE IF ~Truthy(GetItem(j, "data")) THEN Empty
    ELSE LET fields == GetItem(j, "fields")
             data == GetItem(j, "data")
             idx_date == IndexOf(fields, DateCol)
             idx_close == IndexOf(fields, CloseCol)
         IN  IF idx_date.exc = "AttributeError" THEN Raises("AttributeError")
             ELSE IF idx_date.exc = "ValueError" \/ idx_close.exc = "ValueError" THEN Empty
             ELSE IF ~Iterable(data) THEN Raises("TypeError")
             ELSE [exc |-> "none", rows |-> ParseRows(Items(data), idx_date.at, idx_close.at)]

(***************************************************************************)
(* The payloads explored.  Date cells and price cells as the exchange      *)
(* sends them (ROC dates, annotated prices) and as it should not.          *)
(***************************************************************************)
D_0807 == JStr(<<"1", "1", "4", "/", "0", "8", "/", "0", "7">>)

D_0829 == JStr(<<"1", "1", "4", "/", "0", "8", "/", "2", "9">>)

D_0901 == JStr(<<"1", "1", "4", "/", "0", "9", "/", "0", "1">>)

D_1101 == JStr(<<"1", "1", "4", "/", "1", "1", "/", "0", "1">>)

D_Unpadded == JStr(<<" ", "1", "1", "4", "/", "8", "/", "7", " ">>)

D_Month13 == JStr(<<"1", "1", "4", "/", "1", "3", "/", "4", "5">>)

D_Feb30 == JStr(<<"1", "1", "4", "/", "0", "2", "/", "3", "0">>)

D_Month100 == JStr(<<"1", "1", "4", "/", "1", "0", "0", "/", "0", "1">>)

D_Bad == JStr(<<"b", "a", "d">>)

D_TwoParts == JStr(<<"1", "1", "4", "/", "0", "8">>)

P_12450 == JStr(<<"1", "2", "4", ".", "5", "0">>)

P_12500 == JStr(<<"1", "2", "5", ".", "0", "0">>)

P_13000 == JStr(<<"1", "3", "0", ".", "0", "0">>)

P_Star == JStr(<<"1", "2", "4", ".", "5", "0", "*">>)

P_Comma == JStr(<<"1", ",", "2", "3", "4", ".", "5">>)

P_Neg == JStr(<<"-", "5">>)

P_NegStar == JStr(<<"-", "1", "2", "4", ".", "5", "0", "*">>)

P_Bad == JStr(<<"x", "x">>)

P_TwoDots == JStr(<<"1", ".", "2", ".", "3">>)

\* a logical row: its date cell and its price cell
LRow(d, c) == [date |-> d, close |-> c]

\* the rows of a payload, before they are laid out in columns
RowSet(r) ==
    CASE r = 1 -> <<LRow(D_0807, P_12450), LRow(D_Bad, P_Bad), LRow(D_0829, P_12500)>>
      [] r = 2 -> <<LRow(D_0829, P_12500), LRow(D_0901, P_Comma)>>
      [] r = 3 -> <<LRow(D_Month13, P_12450)>>
      [] r = 4 -> <<LRow(D_0807, P_12450), LRow(D_Feb30, P_12500)>>
      [] r = 5 -> <<LRow(D_0807, P_12450), LRow(D_Unpadded, P_12500)>>
      [] r = 6 -> <<LRow(D_Month13, P_12450), LRow(D_Month100, P_12450), LRow(D_1101, P_12500)>>
      [] r = 7 -> <<LRow(D_Bad, P_Bad), LRow(D_TwoParts, P_12450), LRow(D_0807, P_TwoDots)>>
      [] r = 8 -> <<LRow(JNum(1140807), P_12450), LRow(D_0807, P_Star), LRow(JNull, JNum(126))>>
      [] r = 9 -> <<LRow(D_0807, P_Neg), LRow(D_0829, P_NegStar)>>
      [] r = 10 -> <<LRow(D_0829, P_13000), LRow(D_0829, P_12500), LRow(D_0901, JNum(126))>>

\* the column layouts: date, close / close, count, date
LayoutCols(l) ==
    IF l = "dc" THEN <<JStr(DateCol), JStr(CloseCol)>>
    ELSE <<JStr(CloseCol), JStr(CountCol), JStr(DateCol)>>

LayRow(l, lr) ==
    IF l = "dc" THEN JArr(<<lr.date, lr.close>>)
    ELSE JArr(<<lr.close, JStr(<<"9">>), lr.date>>)

RECURSIVE LayRows(_, _)
LayRows(l, rows) ==
    IF rows = <<>> THEN <<>> ELSE <<LayRow(l, Head(rows))>> \o LayRows(l, Tail(rows))

\* rows that are not lists of cells, around one good row
OddRows(l) ==
    <<JNum(5), JStr(<<"x">>), JArr(<<>>), JNull, LayRow(l, LRow(D_0807, P_12450)),
      JArr(<<D_0829>>)>>

\* the shapes of the "fields" member; 0 is a missing member
FieldsShapes == 0..9

FieldsLayout(f) == IF f = 2 THEN "cnd" ELSE "dc"

FieldsValue(f) ==
    CASE f = 1 -> JArr(LayoutCols("dc"))
      [] f = 2 -> JArr(LayoutCols("cnd"))
      [] f = 3 -> JArr(<<JStr(DateCol)>>)
      [] f = 4 -> JArr(<<>>)
      [] f = 5 -> JStr(DateCol \o CloseCol)
      [] f = 6 -> JNull
      [] f = 7 -> JNum(5)
      [] f = 8 -> JBool(TRUE)
      [] f = 9 -> JObj({}, JNull, JNull)
      [] OTHER -> JNull

\* the shapes of the "data" member; 0 is a missing member, 11.. are row lists
DataShapes == 0..20

DataValue(l, d) ==
    CASE d = 1 -> JArr(<<>>)
      [] d = 2 -> JNull
      [] d = 3 -> JNum(0)
      [] d = 4 -> JNum(7)
      [] d = 5 -> JStr(<<"x">>)
      [] d = 6 -> JBool(TRUE)
      [] d = 7 -> JBool(FALSE)
      [] d = 8 -> JObj({}, JNull, JNull)
      [] d = 9 -> JObj({"stat"}, JNull, JNull)
      [] d = 10 -> JArr(OddRows(l))
      [] d > 10 -> JArr(LayRows(l, RowSet(d - 10)))
      [] OTHER -> JNull

\* decoded values that are no object, or an object of other members
TopShapes == 1..9

TopValue(k) ==
    CASE k = 1 -> JNull
      [] k = 2 -> JBool(TRUE)
      [] k = 3 -> JNum(123)
      [] k = 4 -> JNum(0)
      [] k = 5 -> JStr(<<"s", "t", "a", "t">>)
      [] k = 6 -> JStr(KeyChars("data") \o <<" ">> \o KeyChars("fields"))
      [] k = 7 -> JArr(<<>>)
      [] k = 8 -> JArr(<<JStr(KeyChars("data")), JStr(KeyChars("fields"))>>)
      [] k = 9 -> JObj({"stat"}, JNull, JNull)

\* a payload is named <<"top", k, 0>> or <<"obj", f, d>>
PayloadIds ==
    {<<"top", k, 0>> : k \in TopShapes}
        \cup {<<"obj", f, d>> : f \in FieldsShapes, d \in DataShapes}

Payload(id) ==
    IF id[1] = "top" THEN TopValue(id[2])
    ELSE JObj((IF id[2] = 0 THEN {} ELSE {"fields"}) \cup (IF id[3] = 0 THEN {} ELSE {"data"}),
              FieldsValue(id[2]), DataValue(FieldsLayout(id[2]), id[3]))

(***************************************************************************)
(* month_list: the month starts between today - N years and today          *)
(***************************************************************************)
IsLeap(y) == (y % 4 = 0 /\ y % 100 # 0) \/ y % 400 = 0

DaysIn(y, m) ==
    IF m = 2 THEN (IF IsLeap(y) THEN 29 ELSE 28)
    ELSE IF m \in {4, 6, 9, 11} THEN 30 ELSE 31

\* end - pd.DateOffset(years=n): same month, the day clipped to the month's length
MinusYears(day, n) ==
    [y |-> day.y - n, m |-> day.m,
     d |-> IF day.d > DaysIn(day.y - n, day.m) THEN DaysIn(day.y - n, day.m) ELSE day.d]

\* months are counted from year 0: 12 * y + (m - 1)
MonthIndex(y, m) == 12 * y + (m - 1)

\* f"{d.year}{d.month:02d}" of the month with a given index
MonthKey(i) == IntStr(i \div 12) \o Fmt02((i % 12) + 1)

\* pd.date_range(start, end, freq="MS"): the first days of month within
\* [start, end]; the first one is start itself only when start is a 1st
FirstMonthStart(start) == MonthIndex(start.y, start.m) + (IF start.d = 1 THEN 0 ELSE 1)

month_list(today, last_years) ==
    LET start == MinusYears(today, last_years)
        first == FirstMonthStart(start)
        last == MonthIndex(today.y, today.m)
    IN  [i \in 1..(last - first + 1) |-> MonthKey(first + i - 1)]

(***************************************************************************)
(* safe_get: one validated GET, and one unvalidated GET after an SSLError  *)
(***************************************************************************)
\* what one requests.get does: raises exc, or returns a response
Raised(e) == [exc |-> e, status |-> 0, body |-> <<"bad", 0, 0>>]

Response(st, b) == [exc |-> "none", status |-> st, body |-> b]

\* the same with the fallback taken after any exception
safe_get_any_error(first, second) == IF first.exc # "none" THEN second ELSE first

safe_get(first, second) == IF first.exc = "SSLError" THEN second ELSE first

TWSE_URL == "https://www.twse.com.tw/exchangeReport/STOCK_DAY"

\* a header dict is a set of <<name, value>> pairs, one per name
HasHeader(h, name) == \E e \in h : e[1] = name

\* headers = kwargs.pop("headers", {}); headers.setdefault("User-Agent", ...)
SentHeaders(kw) ==
    LET headers == IF kw.has_headers THEN kw.headers ELSE {}
    IN  IF HasHeader(headers, "User-Agent") THEN headers
        ELSE headers \cup {<<"User-Agent", "Mozilla/5.0">>}

\* one requests.get call: verify is "certifi" (the bundle of certifi.where())
\* or "off" (verify=False); the rest is what is left of kwargs
GetCall(url, kw, verify) ==
    [url |-> url, verify |-> verify, headers |-> SentHeaders(kw),
     params |-> kw.params, timeout |-> kw.timeout]

\* the requests.get calls one safe_get call makes, in order
SafeGetCalls(url, kw, first) ==
    <<GetCall(url, kw, "certifi")>>
        \o (IF first.exc = "SSLError" THEN <<GetCall(url, kw, "off")>> ELSE <<>>)

(***************************************************************************)
(* fetch_range: concatenation, drop_duplicates and sort_values             *)
(***************************************************************************)
RECURSIVE Concat(_)
Concat(frames) == IF frames = <<>> THEN <<>> ELSE Head(frames) \o Concat(Tail(frames))

\* the same with the last row of each Date kept
RECURSIVE DropDuplicatesKeepLast(_, _)
DropDuplicatesKeepLast(rows, seen) ==
    IF rows = <<>> THEN <<>>
    ELSE IF \E k \in 2..Len(rows) : rows[k].Date = Head(rows).Date
         THEN DropDuplicatesKeepLast(Tail(rows), seen)
         ELSE <<Head(rows)>> \o DropDuplicatesKeepLast(Tail(rows), seen)

\* drop_duplicates(subset=["Date"]): the first row of each Date is kept
RECURSIVE DropDuplicates(_, _)
DropDuplicates(rows, seen) ==
    IF rows = <<>> THEN <<>>
    ELSE IF Head(rows).Date \in seen THEN DropDuplicates(Tail(rows), seen)
    ELSE <<Head(rows)>> \o DropDuplicates(Tail(rows), seen \cup {Head(rows).Date})

\* the order sort_values("Date") sorts by: the Date column holds strings
DateBefore(a, b) == StrLess(a.Date, b.Date)

RECURSIVE InsertSorted(_, _)
InsertSorted(sorted, r) ==
    IF sorted = <<>> THEN <<r>>
    ELSE IF DateBefore(r, Head(sorted)) THEN <<r>> \o sorted
    ELSE <<Head(sorted)>> \o InsertSorted(Tail(sorted), r)

RECURSIVE SortValues(_)
SortValues(rows) ==
    IF rows = <<>> THEN <<>>
    ELSE InsertSorted(SortValues(SubSeq(rows, 1, Len(rows) - 1)), rows[Len(rows)])

\* what fetch_range returns for the frames it collected
MergeFrames(frames) ==
    IF frames = <<>> THEN <<>> ELSE SortValues(DropDuplicates(Concat(frames), {}))

(***************************************************************************)
(* The inputs of a run                                                     *)
(***************************************************************************)
\* the body of a response that r.json() cannot decode
Undecodable == <<"bad", 0, 0>>

\* the bodies the transport answers with in the runs of main
FetchBodies ==
    {<<"obj", 1, 11>>, <<"obj", 2, 12>>, <<"obj", 1, 16>>, <<"obj", 1, 20>>,
     <<"obj", 1, 17>>, <<"obj", 0, 11>>, <<"obj", 1, 1>>, <<"obj", 4, 11>>,
     <<"top", 3, 0>>, <<"obj", 6, 11>>}

\* what one requests.get can do
GetOutcomes ==
    {Raised("SSLError"), Raised("ConnectionError")}
        \cup {Response(HTTP_OK, b) : b \in FetchBodies \cup {Undecodable}}
        \cup {Response(201, b) : b \in {<<"obj", 1, 11>>, Undecodable}}
        \cup {Response(503, Undecodable)}

\* what df.to_csv can do
WriteOutcomes == {"ok", "OSError"}

\* the day the runs of main take place
RunDay == [y |-> 2025, m |-> 9, d |-> 15]

\* the last n entries of a sequence
LastN(q, n) == SubSeq(q, Len(q) - n + 1, Len(q))

\* the month lists fetch_range walks: the last 0..MaxMonths months of
\* month_list, so that a run stays small
MonthLists == {LastN(month_list(RunDay, 1), n) : n \in 0..MaxMonths}

Symbols == 1..NumSymbols

\* params of fetch_month_json for an instrument and a month
Params(stock_no, yyyymm) ==
    [response |-> "json", date |-> yyyymm \o <<"0", "1">>, stockNo |-> stock_no]

\* the keyword arguments safe_get is called with: those of fetch_month_json
\* (params and timeout=30, no headers), and the same with a headers dict
KwargsSet ==
    {[params |-> Params(s, k), timeout |-> 30, has_headers |-> FALSE, headers |-> {}] :
        s \in Symbols, k \in {MonthKey(MonthIndex(2025, 8)), MonthKey(MonthIndex(2025, 9))}}
    \cup
    {[params |-> Params(s, k), timeout |-> 30, has_headers |-> TRUE, headers |-> h] :
        s \in Symbols, k \in {MonthKey(MonthIndex(2025, 8)), MonthKey(MonthIndex(2025, 9))},
        h \in {{}, {<<"User-Agent", "curl">>}, {<<"Accept", "application/json">>}}}

\* the days and lookbacks month_list is computed for
Days ==
    {[y |-> yy, m |-> mm, d |-> dd] :
        yy \in {2024, 2025}, mm \in 1..12, dd \in {1, 15, 28}}
        \cup {[y |-> yy, m |-> mm, d |-> DaysIn(yy, mm)] : yy \in {2024, 2025}, mm \in 1..12}

(***************************************************************************)
(* State                                                                   *)
(***************************************************************************)
VARIABLES
    pc,         \* where main is: "main", "attempt", "warn", "month_end",
                \* "merge", "write", "done", "raised"
    si,         \* main: the number of instruments started
    months,     \* fetch_range: the month list
    mi,         \* fetch_range: the position of the current month
    frames,     \* fetch_range: the non-empty frames collected
    attempt,    \* fetch_month_json: passes of the retry loop made
    df_m,       \* the rows fetch_month_json returned for the current month
    series,     \* the rows fetch_range returned for the current instrument
    files,      \* the output file of each instrument: "absent", "old", "written"
    report,     \* what main printed last for each instrument
    escaped,    \* the exception that left main, or "none"
    warnings,   \* the [WARN] lines printed for the current instrument
    calls,      \* safe_get calls made for the current month
    paced,      \* a sleep has ended since the last safe_get of this instrument
    last,       \* what the last safe_get of this month did
    allFail,    \* every attempt of this month ended in a failure
    returned,   \* per month fetched: the rows fetch_month_json returned, and
                \* whether it returned after the retry loop ran out
    payload,    \* the parser alone: the payload given
    parsed,     \* the parser alone: its result
    today,      \* month_list alone: the current date
    last_years, \* month_list alone: the lookback
    listed,     \* month_list alone: its result, once computed
    kwargs,     \* safe_get alone: the keyword arguments of the call
    wire,       \* safe_get alone: what the validated and the unvalidated GET do
    got,        \* safe_get alone: the GETs made and the outcome, once called
    perm,       \* the parser alone: a permutation of the payload's columns
    reparsed    \* the parser alone: its result for the permuted payload

vars ==
    <<pc, si, months, mi, frames, attempt, df_m, series, files, report, escaped,
      warnings, calls, paced, last, allFail, returned, payload, parsed, today,
      last_years, listed, kwargs, wire, got, perm, reparsed>>

runVars ==
    <<pc, si, months, mi, frames, attempt, df_m, series, files, report, escaped,
      warnings, calls, paced, last, allFail, returned>>

parseVars == <<payload, parsed, perm, reparsed>>

listVars == <<today, last_years, listed>>

getVars == <<kwargs, wire, got>>

NoCall == [exc |-> "none", status |-> 0, decoded |-> FALSE]

Unparsed == [exc |-> "unset", rows |-> <<>>]

Unlisted == [set |-> FALSE, keys |-> <<>>]

\* main has not started; ms is the month list of the day, fs the files left
\* by earlier runs
RunStart(ms, fs) ==
    /\ pc = "main" /\ si = 0 /\ months = ms /\ mi = 0 /\ frames = <<>>
    /\ attempt = 0 /\ df_m = <<>> /\ series = <<>>
    /\ files = fs /\ report = [s \in Symbols |-> "none"]
    /\ escaped = "none" /\ warnings = <<>> /\ calls = 0 /\ paced = TRUE
    /\ last = NoCall /\ allFail = TRUE /\ returned = <<>>

RunIdle == RunStart(<<>>, [s \in Symbols |-> "absent"])

ParseIdle ==
    /\ payload = <<"top", 1, 0>> /\ parsed = Unparsed
    /\ perm = <<>> /\ reparsed = Unparsed

ListIdle == today = RunDay /\ last_years = 0 /\ listed = Unlisted

NotCalled == [set |-> FALSE, calls |-> <<>>, out |-> Raised("none")]

GetIdle ==
    /\ kwargs = [params |-> Params(1, MonthKey(MonthIndex(2025, 9))), timeout |-> 30,
                 has_headers |-> FALSE, headers |-> {}]
    /\ wire = [first |-> Raised("SSLError"), second |-> Raised("SSLError")]
    /\ got = NotCalled

(***************************************************************************)
(* main, fetch_range and fetch_month_json                                  *)
(***************************************************************************)
Init ==
    /\ \E ms \in MonthLists, fs \in [Symbols -> {"absent", "old"}] : RunStart(ms, fs)
    /\ ParseIdle
    /\ ListIdle
    /\ GetIdle

\* main: `for sym in symbols`, and the start of fetch_range(sym, years)
MainNext ==
    /\ pc = "main" /\ si < NumSymbols
    /\ si' = si + 1
    /\ mi' = 1 /\ frames' = <<>> /\ attempt' = 0 /\ df_m' = <<>> /\ series' = <<>>
    /\ warnings' = <<>> /\ calls' = 0 /\ paced' = TRUE /\ last' = NoCall
    /\ allFail' = TRUE /\ returned' = <<>>
    /\ pc' = IF months = <<>> THEN "merge" ELSE "attempt"
    /\ UNCHANGED <<months, files, report, escaped>>

\* main: the instrument list is exhausted
MainExit ==
    /\ pc = "main" /\ si = NumSymbols
    /\ pc' = "done"
    /\ UNCHANGED <<si, months, mi, frames, attempt, df_m, series, files, report,
                   escaped, warnings, calls, paced, last, allFail, returned>>

\* one pass too many
MoreAttemptsOffByOne(n) == n <= RETRY

\* `for _ in range(RETRY)` makes another pass after n passes
MoreAttempts(n) == n < RETRY

\* the parse of each body of the runs, computed once
ParsedBody == [b \in FetchBodies |-> ParseMonth(Payload(b))]

\* the same with a frame without rows retried like a failure
AttemptFailsOnEmpty(r) ==
    \/ r.exc # "none" \/ r.status # HTTP_OK \/ r.body = Undecodable
    \/ ParsedBody[r.body].exc = "none" /\ ParsedBody[r.body].rows = <<>>

\* the pass ends in `continue` or in the except clause: a RequestException
\* from safe_get, a status other than 200, or a body r.json() rejects
AttemptFails(r) == r.exc # "none" \/ r.status # HTTP_OK \/ r.body = Undecodable

\* the failures an attempt can end in: a network error, a status that is not
\* a success (2xx), a body that cannot be decoded
EndsInFailure(r) ==
    r.exc # "none" \/ r.status \notin 200..299 \/ r.body = Undecodable

\* one pass of the retry loop of fetch_month_json; first and second are what
\* the validated and the unvalidated GET would do
Attempt(first, second) ==
    LET r == safe_get(first, second)
        res == ParsedBody[r.body]
    IN  /\ pc = "attempt" /\ MoreAttempts(attempt)
        /\ attempt' = attempt + 1
        /\ calls' = calls + 1
        /\ last' = [exc |-> r.exc, status |-> r.status,
                    decoded |-> r.exc = "none" /\ r.body # Undecodable]
        /\ allFail' = (allFail /\ EndsInFailure(r))
        /\ IF AttemptFails(r)
           THEN /\ paced' = TRUE
                /\ pc' = IF MoreAttempts(attempt + 1) THEN "attempt" ELSE "warn"
                /\ UNCHANGED <<df_m, escaped>>
           ELSE /\ paced' = FALSE
                /\ IF res.exc # "none"
                   THEN pc' = "raised" /\ escaped' = res.exc /\ UNCHANGED df_m
                   ELSE pc' = "month_end" /\ df_m' = res.rows /\ UNCHANGED escaped
        /\ UNCHANGED <<si, months, mi, frames, series, files, report, warnings, returned>>

\* the same without the [WARN] line
WarnSilent ==
    /\ pc = "warn"
    /\ df_m' = <<>>
    /\ pc' = "month_end"
    /\ UNCHANGED <<si, months, mi, frames, attempt, series, files, report, escaped,
                   calls, paced, last, allFail, returned, warnings>>

\* fetch_month_json after the loop: the [WARN] line and an empty frame
Warn ==
    /\ pc = "warn"
    /\ warnings' = Append(warnings, [stock_no |-> si, yyyymm |-> months[mi]])
    /\ df_m' = <<>>
    /\ pc' = "month_end"
    /\ UNCHANGED <<si, months, mi, frames, attempt, series, files, report, escaped,
                   calls, paced, last, allFail, returned>>

\* the last safe_get returned a 200 response whose body decodes
GotPayload(l) == l.exc = "none" /\ l.status = HTTP_OK /\ l.decoded

\* the same with the pacing sleep of line 111 left out
MonthEndNoSleep ==
    /\ pc = "month_end"
    /\ frames' = IF df_m # <<>> THEN Append(frames, df_m) ELSE frames
    /\ returned' = Append(returned, [rows |-> df_m, exhausted |-> ~GotPayload(last)])
    /\ mi' = mi + 1
    /\ attempt' = 0 /\ calls' = 0 /\ last' = NoCall /\ allFail' = TRUE
    /\ pc' = IF mi < Len(months) THEN "attempt" ELSE "merge"
    /\ UNCHANGED <<si, months, df_m, series, files, report, escaped, warnings, paced>>

\* the same with the frames dropped at a month without rows
MonthEndResets ==
    /\ pc = "month_end"
    /\ frames' = IF df_m # <<>> THEN Append(frames, df_m) ELSE <<>>
    /\ returned' = Append(returned, [rows |-> df_m, exhausted |-> ~GotPayload(last)])
    /\ paced' = TRUE
    /\ mi' = mi + 1
    /\ attempt' = 0 /\ calls' = 0 /\ last' = NoCall /\ allFail' = TRUE
    /\ pc' = IF mi < Len(months) THEN "attempt" ELSE "merge"
    /\ UNCHANGED <<si, months, df_m, series, files, report, escaped, warnings>>

\* fetch_range: the rest of the loop body once fetch_month_json has returned
MonthEnd ==
    /\ pc = "month_end"
    /\ frames' = IF df_m # <<>> THEN Append(frames, df_m) ELSE frames
    /\ returned' = Append(returned, [rows |-> df_m, exhausted |-> ~GotPayload(last)])
    /\ paced' = TRUE
    /\ mi' = mi + 1
    /\ attempt' = 0 /\ calls' = 0 /\ last' = NoCall /\ allFail' = TRUE
    /\ pc' = IF mi < Len(months) THEN "attempt" ELSE "merge"
    /\ UNCHANGED <<si, months, df_m, series, files, report, escaped, warnings>>

\* fetch_range after the loop
Merge ==
    /\ pc = "merge"
    /\ series' = MergeFrames(frames)
    /\ pc' = "write"
    /\ UNCHANGED <<si, months, mi, frames, attempt, df_m, files, report, escaped,
                   warnings, calls, paced, last, allFail, returned>>

\* the same with the file of an instrument without rows removed
WriteClearsOnEmpty(w) ==
    /\ pc = "write"
    /\ IF series = <<>>
       THEN /\ report' = [report EXCEPT ![si] = "failed"]
            /\ files' = [files EXCEPT ![si] = "absent"]
            /\ pc' = "main"
            /\ UNCHANGED escaped
       ELSE IF w = "OSError"
       THEN /\ pc' = "raised" /\ escaped' = "OSError"
            /\ UNCHANGED <<files, report>>
       ELSE /\ files' = [files EXCEPT ![si] = "written"]
            /\ report' = [report EXCEPT ![si] = "done"]
            /\ pc' = "main"
            /\ UNCHANGED escaped
    /\ UNCHANGED <<si, months, mi, frames, attempt, df_m, series, warnings, calls,
                   paced, last, allFail, returned>>

\* the same with the run ended at an instrument without rows
WriteStopsOnEmpty(w) ==
    /\ pc = "write"
    /\ IF series = <<>>
       THEN /\ report' = [report EXCEPT ![si] = "failed"]
            /\ pc' = "done"
            /\ UNCHANGED <<files, escaped>>
       ELSE IF w = "OSError"
       THEN /\ pc' = "raised" /\ escaped' = "OSError"
            /\ UNCHANGED <<files, report>>
       ELSE /\ files' = [files EXCEPT ![si] = "written"]
            /\ report' = [report EXCEPT ![si] = "done"]
            /\ pc' = "main"
            /\ UNCHANGED escaped
    /\ UNCHANGED <<si, months, mi, frames, attempt, df_m, series, warnings, calls,
                   paced, last, allFail, returned>>

\* main: the rest of the loop body once fetch_range has returned
Write(w) ==
    /\ pc = "write"
    /\ IF series = <<>>
       THEN /\ report' = [report EXCEPT ![si] = "failed"]
            /\ pc' = "main"
            /\ UNCHANGED <<files, escaped>>
       ELSE IF w = "OSError"
       THEN /\ pc' = "raised" /\ escaped' = "OSError"
            /\ UNCHANGED <<files, report>>
       ELSE /\ files' = [files EXCEPT ![si] = "written"]
            /\ report' = [report EXCEPT ![si] = "done"]
            /\ pc' = "main"
            /\ UNCHANGED escaped
    /\ UNCHANGED <<si, months, mi, frames, attempt, df_m, series, warnings, calls,
                   paced, last, allFail, returned>>

Next ==
    \/ MainNext /\ UNCHANGED <<parseVars, listVars, getVars>>
    \/ MainExit /\ UNCHANGED <<parseVars, listVars, getVars>>
    \/ \E first \in GetOutcomes :
         \E second \in (IF first.exc = "SSLError" THEN GetOutcomes ELSE {first}) :
            Attempt(first, second) /\ UNCHANGED <<parseVars, listVars, getVars>>
    \/ Warn /\ UNCHANGED <<parseVars, listVars, getVars>>
    \/ MonthEnd /\ UNCHANGED <<parseVars, listVars, getVars>>
    \/ Merge /\ UNCHANGED <<parseVars, listVars, getVars>>
    \/ \E w \in WriteOutcomes : Write(w) /\ UNCHANGED <<parseVars, listVars, getVars>>

Spec == Init /\ [][Next]_vars

(***************************************************************************)
(* The parser alone, over every payload                                    *)
(***************************************************************************)
ParseInit ==
    /\ RunIdle /\ ListIdle /\ GetIdle
    /\ payload \in PayloadIds /\ parsed = Unparsed
    /\ perm = <<>> /\ reparsed = Unparsed

ParseStep ==
    /\ parsed = Unparsed
    /\ parsed' = ParseMonth(Payload(payload))
    /\ UNCHANGED <<payload, perm, reparsed, runVars, listVars, getVars>>

ParseSpec == ParseInit /\ [][ParseStep]_vars

(***************************************************************************)
(* The parser alone, over tables and permutations of their columns         *)
(***************************************************************************)
\* the payloads that are tables: a list of distinct column names and rows
\* that are lists with one cell per column
TableIds == {<<"obj", f, d>> : f \in {1, 2}, d \in {1} \cup 11..20}

\* the permutations of 1..n
Perms(n) == {p \in [1..n -> 1..n] : \A a, b \in 1..n : p[a] = p[b] => a = b}

PermuteSeq(q, p) == [i \in 1..Len(q) |-> q[p[i]]]

\* the table j with its columns permuted, in the column names and in each row
Permuted(j, p) ==
    JObj(j.v.has, JArr(PermuteSeq(j.v.fields.v, p)),
         JArr([r \in 1..Len(j.v.data.v) |-> JArr(PermuteSeq(j.v.data.v[r].v, p))]))

PermInit ==
    /\ RunIdle /\ ListIdle /\ GetIdle
    /\ payload \in TableIds /\ parsed = Unparsed
    /\ perm \in Perms(Len(Payload(payload).v.fields.v)) /\ reparsed = Unparsed

PermStep ==
    /\ parsed = Unparsed
    /\ parsed' = ParseMonth(Payload(payload))
    /\ reparsed' = ParseMonth(Permuted(Payload(payload), perm))
    /\ UNCHANGED <<payload, perm, runVars, listVars, getVars>>

PermSpec == PermInit /\ [][PermStep]_vars

(***************************************************************************)
(* month_list alone, over days and lookbacks                               *)
(***************************************************************************)
ListInit ==
    /\ RunIdle /\ ParseIdle /\ GetIdle
    /\ today \in Days /\ last_years \in 0..MaxYears /\ listed = Unlisted

ListStep ==
    /\ ~listed.set
    /\ listed' = [set |-> TRUE, keys |-> month_list(today, last_years)]
    /\ UNCHANGED <<today, last_years, runVars, parseVars, getVars>>

ListSpec == ListInit /\ [][ListStep]_vars

(***************************************************************************)
(* safe_get alone, over what the two GETs do and the keyword arguments     *)
(***************************************************************************)
GetInit ==
    /\ RunIdle /\ ParseIdle /\ ListIdle
    /\ kwargs \in KwargsSet
    /\ wire \in [first : GetOutcomes, second : GetOutcomes]
    /\ got = NotCalled

GetStep ==
    /\ ~got.set
    /\ got' = [set |-> TRUE,
               calls |-> SafeGetCalls(TWSE_URL, kwargs, wire.first),
               out |-> safe_get(wire.first, wire.second)]
    /\ UNCHANGED <<kwargs, wire, runVars, parseVars, listVars>>

GetSpec == GetInit /\ [][GetStep]_vars

(***************************************************************************)
(* Properties                                                              *)
(***************************************************************************)
\* the [WARN] lines naming instrument s and month k
WarnCount(s, k) ==
    Cardinality({i \in 1..Len(warnings) : warnings[i] = [stock_no |-> s, yyyymm |-> k]})

\* fetch_month_json has returned for the current month after RETRY attempts
\* that all ended in a network error, a non-2xx status or an undecodable body
ExhaustedMonth == pc = "month_end" /\ attempt = RETRY /\ allFail

\* C1: when all three attempts of a month end in a failure, exactly one
\* warning names the instrument and the month, the month returns no rows,
\* and fetch_range goes on with the next month (or, after the last month,
\* with the merge) without collecting a frame and without raising.
C1_ExhaustedMonthWarnsOnce ==
    /\ [](ExhaustedMonth =>
            /\ WarnCount(si, months[mi]) = 1
            /\ df_m = <<>>
            /\ escaped = "none")
    /\ [][ExhaustedMonth =>
            /\ pc' = (IF mi < Len(months) THEN "attempt" ELSE "merge")
            /\ mi' = mi + 1
            /\ frames' = frames
            /\ escaped' = "none"]_vars

C1_Witness ==
    /\ ExhaustedMonth /\ mi = 1 /\ Len(months) = 2
    /\ WarnCount(si, months[mi]) = 1
    /\ last.exc = "none" /\ last.status = 503

\* C2: once an attempt has received a 200 response whose body decodes, no
\* further request is made for that month, whether the parse gave rows, no
\* rows, or raised: the retry loop is left and the call count of the month
\* does not grow.
C2_NoRetryAfterPayload ==
    /\ [](GotPayload(last) => pc \in {"month_end", "raised"})
    /\ [][GotPayload(last) => (calls' = calls \/ (calls' = 0 /\ mi' # mi))]_vars

C2_Witness ==
    /\ pc = "month_end" /\ GotPayload(last) /\ df_m = <<>> /\ calls = 1
    /\ warnings = <<>>

\* what is left of a fetch_range call: months, then attempts, then steps
FetchRank ==
    CASE pc = "attempt" -> (Len(months) - mi) * (RETRY + 3) + (RETRY - attempt) + 4
      [] pc = "warn" -> (Len(months) - mi) * (RETRY + 3) + 3
      [] pc = "month_end" -> (Len(months) - mi) * (RETRY + 3) + 2
      [] pc = "merge" -> 1
      [] OTHER -> 0

InFetchRange == pc \in {"attempt", "warn", "month_end", "merge"}

\* C3: a month is fetched with at least one and at most RETRY safe_get
\* calls, the months of the list are fetched once each in order (so M months
\* take at most RETRY * M calls), and fetch_range ends: inside it the retry
\* loop, the only guarded step, can always go on, and every step brings the
\* end of fetch_range (a return or a raise) closer.
C3_BoundedAttempts ==
    /\ [](/\ calls <= RETRY
          /\ attempt = calls
          /\ pc \in {"warn", "month_end"} => calls >= 1
          /\ pc \in {"attempt", "warn", "month_end"} => mi \in 1..Len(months))
    /\ [][(pc \in {"attempt", "warn", "month_end"}) => (mi' = mi \/ mi' = mi + 1)]_vars
    /\ [](InFetchRange => FetchRank > 0)
    /\ [](pc = "attempt" => MoreAttempts(attempt))
    /\ [][InFetchRange => FetchRank' < FetchRank]_vars

C3_Witness ==
    pc = "month_end" /\ calls = RETRY /\ mi = Len(months) /\ mi = MaxMonths /\ si = NumSymbols

\* C4: the parse of a decoded payload never raises, whatever was decoded.
C4_ParseNeverRaises == parsed.exc \in {"unset", "none"}

\* s is YYYY-MM-DD for a day that exists
IsCalendarDate(s) ==
    /\ Len(s) = 10 /\ s[5] = "-" /\ s[8] = "-"
    /\ AllDigits(SubSeq(s, 1, 4)) /\ AllDigits(SubSeq(s, 6, 7)) /\ AllDigits(SubSeq(s, 9, 10))
    /\ DigitsVal(SubSeq(s, 6, 7)) \in 1..12
    /\ DigitsVal(SubSeq(s, 9, 10))
          \in 1..DaysIn(DigitsVal(SubSeq(s, 1, 4)), DigitsVal(SubSeq(s, 6, 7)))

\* C5: every row the parser returns, and every row of a returned series,
\* carries a date that exists in the calendar.
C5_DatesAreValid ==
    /\ \A i \in 1..Len(df_m) : IsCalendarDate(df_m[i].Date)
    /\ \A i \in 1..Len(series) : IsCalendarDate(series[i].Date)

\* the months from the month of today - n years through the month of today
ExpectedMonths(day, n) ==
    [i \in 1..(12 * n + 1) |-> MonthKey(MonthIndex(day.y - n, day.m) + i - 1)]

\* C6: month_list returns the months from the start date's month through
\* today's month, 12 * N + 1 of them, whatever the day of the month.
C6_MonthListComplete == listed.set => listed.keys = ExpectedMonths(today, last_years)

\* the year, month and day numbers written in a Date
IsDateLike(s) ==
    LET p == Split(s, "-") IN Len(p) = 3 /\ \A i \in 1..3 : AllDigits(p[i])

DateKey(s) == LET p == Split(s, "-") IN [i \in 1..3 |-> DigitsVal(p[i])]

KeyBefore(a, b) ==
    \/ a[1] < b[1]
    \/ a[1] = b[1] /\ a[2] < b[2]
    \/ a[1] = b[1] /\ a[2] = b[2] /\ a[3] < b[3]

\* C7: a returned series is strictly ascending by date (year, then month,
\* then day), so no date occurs twice.
C7_SeriesAscending ==
    \A i, j \in 1..Len(series) :
        i < j => /\ IsDateLike(series[i].Date) /\ IsDateLike(series[j].Date)
                 /\ KeyBefore(DateKey(series[i].Date), DateKey(series[j].Date))

\* C8: no exception leaves the loop of main.
C8_NothingEscapesMain == escaped = "none" /\ pc # "raised"

\* C9: a safe_get call is made only after a sleep has ended since the
\* previous safe_get call of the same fetch_range, be it a retry of the same
\* month or the first attempt of the next month.
C9_PacedCalls == [][calls' = calls + 1 => paced]_vars

C9_Witness ==
    /\ pc = "attempt" /\ mi = 2 /\ calls = 1 /\ paced
    /\ returned[1].rows # <<>> /\ ~returned[1].exhausted

Records(rows) == {rows[i] : i \in 1..Len(rows)}

Dates(rows) == {rows[i].Date : i \in 1..Len(rows)}

\* the series holds rows of `rows` only, one for each of their dates
SeriesIsOf(rows) ==
    /\ Records(series) \subseteq Records(rows)
    /\ Dates(series) = Dates(rows)
    /\ Len(series) = Cardinality(Dates(rows))

\* fetch_range has returned for three months, of which the first and the
\* third gave rows and the second gave none
ThreeMonthsMiddleEmpty ==
    /\ pc = "write" /\ Len(months) = 3 /\ Len(returned) = 3
    /\ returned[1].rows # <<>> /\ returned[2].rows = <<>> /\ returned[3].rows # <<>>

\* C10 as stated: the series is that of months 1 and 3, and month 2 has a
\* warning, whether it was empty or failed on every attempt.
C10_WarnsWhenEmptyToo ==
    ThreeMonthsMiddleEmpty =>
        /\ SeriesIsOf(returned[1].rows \o returned[3].rows)
        /\ WarnCount(si, months[2]) >= 1

\* C10, amended: the series is that of months 1 and 3; month 2 has one
\* warning when its attempts ran out, and none when it got an empty result.
C10_WarnsOnlyWhenExhausted ==
    ThreeMonthsMiddleEmpty =>
        /\ SeriesIsOf(returned[1].rows \o returned[3].rows)
        /\ WarnCount(si, months[2]) = (IF returned[2].exhausted THEN 1 ELSE 0)

C10_Witness ==
    /\ ThreeMonthsMiddleEmpty /\ returned[2].exhausted
    /\ WarnCount(si, months[2]) = 1 /\ Len(series) >= 3

\* C11: with a lookback of 0 years month_list returns one month, the month
\* of today, whatever the day of the month.
C11_ZeroLookbackIsThisMonth ==
    (listed.set /\ last_years = 0) =>
        listed.keys = <<MonthKey(MonthIndex(today.y, today.m))>>

\* C12: no row the parser returns has a close below zero.
C12_CloseNonNegative == \A i \in 1..Len(parsed.rows) : parsed.rows[i].Close >= 0

\* C13: safe_get makes the validated GET first; it makes a second GET, with
\* validation off and otherwise the same url, headers, params and timeout,
\* exactly when the first raised SSLError, and then hands on what the second
\* did; any other exception of the first GET is raised to the caller after
\* that one GET, and a response is returned whatever its status.
C13_FallbackOnlyOnSSLError ==
    got.set =>
        LET c == got.calls
            f == wire.first
        IN  /\ Len(c) = (IF f.exc = "SSLError" THEN 2 ELSE 1)
            /\ c[1] = [url |-> TWSE_URL, verify |-> "certifi",
                       headers |-> SentHeaders(kwargs),
                       params |-> kwargs.params, timeout |-> kwargs.timeout]
            /\ f.exc = "SSLError" =>
                  /\ c[2] = [c[1] EXCEPT !.verify = "off"]
                  /\ got.out = wire.second
            /\ f.exc # "SSLError" => got.out = f

C13_Witness ==
    /\ got.set /\ wire.first.exc = "SSLError" /\ Len(got.calls) = 2
    /\ got.out.exc = "none" /\ got.out.status = 503
    /\ kwargs.has_headers /\ kwargs.headers = {<<"Accept", "application/json">>}

\* C14: safe_get never raises SSLError to its caller.
C14_NoSSLErrorSurfaces == got.set => got.out.exc # "SSLError"

\* every month of the current instrument has been fetched, and each fetch
\* returned after its retry loop ran out
AllExhausted ==
    /\ si >= 1 /\ Len(returned) = Len(months)
    /\ \A i \in 1..Len(returned) : returned[i].exhausted

\* C15: when every month of an instrument ran out of retries, fetch_range
\* returns no rows; main then reports the instrument as failed, leaves its
\* file alone, raises nothing and is back at the head of its loop, from where
\* it starts the next instrument whenever one is left.  A run that raised did
\* so in an instrument that was not reported as failed.
C15_TotalFailureIsReported ==
    /\ [](pc = "write" /\ AllExhausted => series = <<>>)
    /\ [][(pc = "write" /\ AllExhausted) =>
            /\ report' = [report EXCEPT ![si] = "failed"]
            /\ files' = files
            /\ escaped' = "none"
            /\ pc' = "main"]_vars
    /\ [](pc = "main" /\ AllExhausted =>
            /\ report[si] = "failed" /\ files[si] # "written" /\ escaped = "none")
    /\ [][(pc = "main" /\ si < NumSymbols) =>
            /\ si' = si + 1 /\ pc' \in {"attempt", "merge"}
            /\ files' = files /\ report' = report]_vars
    /\ [](pc = "raised" => report[si] = "none")
    /\ [](pc = "done" => \A s \in Symbols : report[s] # "none")

C15_Witness ==
    /\ pc = "main" /\ si = 1 /\ si < NumSymbols /\ AllExhausted
    /\ Len(months) = 2 /\ Len(warnings) = 2
    /\ report[1] = "failed" /\ files[1] = "old"

\* the payload j has a column-name list naming both required columns, and a
\* list of rows
HasBothColumns(j) ==
    /\ j.t = "obj" /\ {"fields", "data"} \subseteq j.v.has
    /\ j.v.fields.t = "arr" /\ j.v.data.t = "arr"
    /\ \E i \in 1..Len(j.v.fields.v) : j.v.fields.v[i] = JStr(DateCol)
    /\ \E i \in 1..Len(j.v.fields.v) : j.v.fields.v[i] = JStr(CloseCol)

\* the place of a named column among the column names
ColumnOf(j, name) == CHOOSE i \in 1..Len(j.v.fields.v) : j.v.fields.v[i] = JStr(name)

\* the date cell is well-formed: three numeric components that, with 1911
\* added to the first, name a day of the calendar
WellFormedDate(cell) ==
    LET p == Split(Strip(PyStr(cell)), "/")
    IN  /\ Len(p) = 3 /\ \A i \in 1..3 : AllDigits(p[i])
        /\ DigitsVal(p[2]) \in 1..12
        /\ DigitsVal(p[3]) \in 1..DaysIn(DigitsVal(p[1]) + ROC_OFFSET, DigitsVal(p[2]))

\* the price cell is well-formed: a decimal number is left once commas and
\* annotation characters are taken out
WellFormedPrice(cell) == IsFloatStr(KeepNumeric(Strip(RemoveChar(PyStr(cell), ","))))

WellFormedRow(row, dcol, ccol) ==
    /\ row.t = "arr" /\ dcol <= Len(row.v) /\ ccol <= Len(row.v)
    /\ WellFormedDate(row.v[dcol]) /\ WellFormedPrice(row.v[ccol])

\* the record of a well-formed row
RecordOf(row, dcol, ccol) ==
    LET p == Split(Strip(PyStr(row.v[dcol])), "/")
    IN  [Date |-> NatStr(DigitsVal(p[1]) + ROC_OFFSET) \o <<"-">> \o Fmt02(DigitsVal(p[2]))
                    \o <<"-">> \o Fmt02(DigitsVal(p[3])),
         Close |-> FloatOf(KeepNumeric(Strip(RemoveChar(PyStr(row.v[ccol]), ","))))]

\* the records of the well-formed rows, in row order
RECURSIVE WellFormedRecords(_, _, _)
WellFormedRecords(rows, dcol, ccol) ==
    IF rows = <<>> THEN <<>>
    ELSE (IF WellFormedRow(Head(rows), dcol, ccol)
          THEN <<RecordOf(Head(rows), dcol, ccol)>> ELSE <<>>)
         \o WellFormedRecords(Tail(rows), dcol, ccol)

\* C16: for a payload with both required columns the parser returns, in row
\* order, the records of exactly the well-formed rows.
C16_ParserKeepsWellFormedRows ==
    (parsed # Unparsed /\ HasBothColumns(Payload(payload))) =>
        LET j == Payload(payload)
        IN  /\ parsed.exc = "none"
            /\ parsed.rows = WellFormedRecords(j.v.data.v, ColumnOf(j, DateCol),
                                               ColumnOf(j, CloseCol))

\* the rows of the months fetched, earlier month first, in row order
RECURSIVE AllRows(_)
AllRows(ret) == IF ret = <<>> THEN <<>> ELSE Head(ret).rows \o AllRows(Tail(ret))

\* C17: among the rows of all months that carry one date, the series holds
\* exactly the one that comes first (earlier month, then earlier row), whatever
\* the closes of the others.
C17_FirstSeenWins ==
    pc = "write" =>
        LET all == AllRows(returned)
        IN  /\ \A k \in 1..Len(all) :
                  (\A h \in 1..(k - 1) : all[h].Date # all[k].Date) =>
                      \E i \in 1..Len(series) : series[i] = all[k]
            /\ \A i \in 1..Len(series) :
                  \E k \in 1..Len(all) :
                      /\ all[k] = series[i]
                      /\ \A h \in 1..(k - 1) : all[h].Date # all[k].Date
            /\ \A i, j \in 1..Len(series) : series[i].Date = series[j].Date => i = j

C17_Witness ==
    /\ pc = "write" /\ Len(returned) >= 2
    /\ \E a \in 1..Len(returned[1].rows), b \in 1..Len(returned[2].rows) :
          /\ returned[1].rows[a].Date = returned[2].rows[b].Date
          /\ returned[1].rows[a].Close # returned[2].rows[b].Close
          /\ \E i \in 1..Len(series) : series[i] = returned[1].rows[a]
    /\ \E a, b \in 1..Len(returned[2].rows) :
          /\ a < b /\ returned[2].rows[a].Date = returned[2].rows[b].Date
          /\ returned[2].rows[a].Close # returned[2].rows[b].Close

\* the last safe_get of the month ended in a failure: a network error, a
\* status outside 2xx, or a body that cannot be decoded
LastFailed == last.exc # "none" \/ last.status \notin 200..299 \/ ~last.decoded

\* the last attempt of the month was treated as a failure: the retry loop
\* goes on, or has run out
TreatedAsFailure ==
    \/ pc \in {"attempt", "warn"}
    \/ pc = "month_end" /\ WarnCount(si, months[mi]) >= 1

\* C18: an attempt is treated as a failure exactly when it ended in a network
\* error, a status outside 2xx or an undecodable body; any 2xx response with
\* a decodable body goes to the parser and ends the attempts of the month.
C18_FailureIffNot2xx ==
    (calls >= 1 /\ pc \in {"attempt", "warn", "month_end", "raised"}) =>
        (TreatedAsFailure <=> LastFailed)

\* C19: permuting the columns of a table, in the column names and in every
\* row alike, does not change what the parser returns.
C19_ColumnsFoundByName == reparsed # Unparsed => reparsed = parsed

C19_Witness ==
    /\ reparsed # Unparsed /\ Len(reparsed.rows) >= 2
    /\ Len(perm) = 3 /\ perm[1] = 2 /\ perm[2] = 3 /\ perm[3] = 1

\* C20: the file of an instrument changes only in the step of main that
\* follows fetch_range for that instrument, and only when the series has
\* rows; with an empty series every file, a file left by an earlier run
\* included, stays as it is.
C20_FilesChangeOnlyWithRows ==
    /\ [][\A s \in Symbols :
            files'[s] # files[s] => (s = si /\ pc = "write" /\ series # <<>>)]_vars
    /\ [][(pc = "write" /\ series = <<>>) => files' = files]_vars

C20_Witness ==
    /\ pc = "main" /\ si = 2
    /\ report[1] = "failed" /\ files[1] = "old"
    /\ report[2] = "done" /\ files[2] = "written"

====
